---- MODULE Spec2Model ----
(***************************************************************************)
(* A model of Streamlit.py: the recipe-database client, the ingredient     *)
(* normalizer, the two chat backends and the three interactive tabs that   *)
(* write the session state (chat transcript and selected recipe).          *)
(***************************************************************************)
EXTENDS Integers, Sequences, FiniteSets, TLC

VARIABLES
    best_recipe,  \* st.session_state['best_recipe'] (Absent until first written)
    history,      \* st.session_state.history
    user_input,   \* st.session_state.user_input
    input,        \* st.session_state.input, the text widget's value
    pc,           \* position of the script run: "idle", the tab it is about to
                  \* enter, "spinner" (waiting for the chat model) or "done"
    ev,           \* the widgets' values in the current run
    out,          \* what the tab that ran last observed (inputs, failures, exception)
    call,         \* a single function call: the function and its arguments
    ret           \* the outcome of that call

vars == <<best_recipe, history, user_input, input, pc, ev, out, call, ret>>
sessionVars == <<best_recipe, history, user_input, input>>

(***************************************************************************)
(* Bounds of the model.                                                    *)
(***************************************************************************)
MaxCand == 3     \* candidate recipes returned by one search
MaxList == 3     \* length of the lists handed to a single function call

\* range(1, 21): the ingredient slots strIngredient1..strIngredient20
NumSlots == 20

(***************************************************************************)
(* Python values.  Every value carries a tag t so that values of different *)
(* Python types can be compared.                                           *)
(***************************************************************************)
None == [t |-> "None"]
Absent == [t |-> "Absent"]
PyList(s) == [t |-> "list", items |-> s]
PyStr(s) == [t |-> "str", s |-> s]
PyTuple(a, b) == [t |-> "tuple", fst |-> a, snd |-> b]

\* Python truthiness, as used by `if recipes:` and `if recipe_details:`
Truthy(v) ==
    CASE v.t = "list" -> Len(v.items) > 0
      [] v.t = "dict" -> TRUE
      [] v.t = "str" -> v.s # ""
      [] OTHER -> FALSE

Range(s) == {s[i] : i \in DOMAIN s}

\* The outcome of a call: a returned value with the st.error messages shown,
\* or an exception that leaves the function.
Return(v, msgs) == [exc |-> "none", val |-> v, msgs |-> msgs]
Raise(e) == [exc |-> e, val |-> None, msgs |-> <<>>]

(***************************************************************************)
(* The remote catalogue and its HTTP responses.                            *)
(***************************************************************************)
Ingredient(n) == [t |-> "dict", strIngredient |-> n]
Category(n) == [t |-> "dict", strCategory |-> n]
Area(n) == [t |-> "dict", strArea |-> n]
Stub(id) == [t |-> "dict", idMeal |-> id]
Meal(id, ings) ==
    [t |-> "dict", idMeal |-> id, strMeal |-> "Meal " \o id,
     strMealThumb |-> "https://www.themealdb.com/images/" \o id,
     strInstructions |-> "Cook.", ings |-> ings]

MealIds == {"52795", "52874", "52940"}
Slots(id) ==
    CASE id = "52795" -> <<"Egg">>
      [] id = "52874" -> <<"Salt", "Egg">>
      [] OTHER -> <<"Flour", "", "Flour">>
Lookup(id) == Meal(id, Slots(id))
Meals == {Lookup(id) : id \in MealIds}

HttpResponse(status, body) == [status_code |-> status, body |-> body]
TextBody == [json |-> FALSE, obj |-> [error |-> None]]
JsonBody(o) == [json |-> TRUE, obj |-> o]

\* The three failure cases of the client: a non-success status, a body that
\* is not JSON, and a JSON object without the expected key.
BadStatus == {HttpResponse(s, TextBody) : s \in {404, 500}}
BadJson == {HttpResponse(200, TextBody)}
NoKey == {HttpResponse(200, JsonBody([error |-> None]))}
MealsOf(v) == HttpResponse(200, JsonBody([meals |-> v]))
CategoriesOf(v) == HttpResponse(200, JsonBody([categories |-> v]))

SeqUpTo(S, n) == UNION {[1..k -> S] : k \in 0..n}

(***************************************************************************)
(* Chat backends (lines 12-26).                                            *)
(***************************************************************************)
\* What the local model call does: it returns text, returns a dict
\* without the 'response' key, or throws an Exception whose str() is `details`.
BackendText(s) == [exc |-> "none", haskey |-> TRUE, text |-> s, details |-> ""]
BackendThrows(e, d) == [exc |-> e, haskey |-> TRUE, text |-> "", details |-> d]
BackendNoKey == [exc |-> "none", haskey |-> FALSE, text |-> "", details |-> ""]

\* generate_response_gemma with an except clause that names one error class
generate_response_gemma_narrow(prompt, backend) ==
    IF backend.exc = "ConnectionError"
    THEN Return(PyStr("An error occurred: " \o backend.details), <<>>)
    ELSE IF backend.exc # "none" THEN Raise(backend.exc)
    ELSE IF ~backend.haskey THEN Raise("KeyError")
    ELSE Return(PyStr(backend.text), <<>>)

generate_response_gemma(prompt, backend) ==
    IF backend.exc # "none"
    THEN Return(PyStr("An error occurred: " \o backend.details), <<>>)
    ELSE IF ~backend.haskey
         THEN Return(PyStr("An error occurred: " \o "'response'"), <<>>)
         ELSE Return(PyStr(backend.text), <<>>)

generate_response_llama(prompt, backend) ==
    IF backend.exc # "none"
    THEN Return(PyStr("An error occurred: " \o backend.details), <<>>)
    ELSE Return(PyStr(backend.text), <<>>)

(***************************************************************************)
(* Recipe-database client (lines 29-103, 117-128).                         *)
(***************************************************************************)
StatusMessage(response) ==
    "API request failed with status code " \o ToString(response.status_code)
DecodeFailure == Return(None, <<"Error decoding JSON response">>)
StatusFailure(response) == Return(None, <<StatusMessage(response)>>)

\* response.json()[key]: ValueError for a body that is not JSON, KeyError
\* for an object without the key.
JsonKey(response, key) ==
    IF ~response.body.json THEN Raise("ValueError")
    ELSE IF key \notin DOMAIN response.body.obj THEN Raise("KeyError")
    ELSE Return(response.body.obj[key], <<>>)

fetch_ingredient_list(response) ==
    IF response.status_code = 200
    THEN LET j == JsonKey(response, "meals")
         IN IF j.exc = "ValueError" THEN DecodeFailure ELSE j
    ELSE StatusFailure(response)

fetch_category_list(response) ==
    IF response.status_code = 200
    THEN LET j == JsonKey(response, "categories")
         IN IF j.exc = "ValueError" THEN DecodeFailure
            ELSE IF j.exc # "none" THEN j
            ELSE IF j.val.t # "list" THEN Raise("TypeError")
            ELSE Return(PyList([i \in DOMAIN j.val.items |->
                                   j.val.items[i].strCategory]), <<>>)
    ELSE StatusFailure(response)

fetch_area_list(response) ==
    IF response.status_code = 200
    THEN LET j == JsonKey(response, "meals")
         IN IF j.exc = "ValueError" THEN DecodeFailure
            ELSE IF j.exc # "none" THEN j
            ELSE IF j.val.t # "list" THEN Raise("TypeError")
            ELSE Return(PyList([i \in DOMAIN j.val.items |->
                                   j.val.items[i].strArea]), <<>>)
    ELSE StatusFailure(response)

\* The loop of search_recipes_by_ingredients from ingredient i on: one
\* request per ingredient, responses[i] being the answer to the i-th.
RECURSIVE search_loop(_, _, _, _)
search_loop(ingredients, responses, i, results) ==
    IF i > Len(ingredients) THEN Return(PyList(results), <<>>)
    ELSE LET response == responses[i]
         IN IF response.status_code = 200
            THEN LET j == JsonKey(response, "meals")
                 IN IF j.exc = "ValueError" THEN DecodeFailure
                    ELSE IF j.exc # "none" THEN j
                    ELSE IF Truthy(j.val)
                         THEN search_loop(ingredients, responses, i + 1,
                                          results \o j.val.items)
                         ELSE search_loop(ingredients, responses, i + 1, results)
            ELSE StatusFailure(response)

search_recipes_by_ingredients(ingredients, responses) ==
    search_loop(ingredients, responses, 1, <<>>)

search_recipes_by_category_and_area(category, area, response) ==
    IF response.status_code = 200
    THEN LET j == JsonKey(response, "meals")
         IN IF j.exc = "ValueError" THEN DecodeFailure ELSE j
    ELSE StatusFailure(response)

get_recipe_details(recipe_id, response) ==
    IF response.status_code = 200
    THEN LET j == JsonKey(response, "meals")
         IN IF j.exc \in {"ValueError", "KeyError"} THEN DecodeFailure
            ELSE IF j.val.t # "list" THEN Raise("TypeError")
            ELSE IF Len(j.val.items) = 0 THEN Raise("IndexError")
            ELSE Return(j.val.items[1], <<>>)
    ELSE StatusFailure(response)

(***************************************************************************)
(* Ingredient normalizer (lines 110-114).                                  *)
(***************************************************************************)
Lower(name) ==
    CASE name = "Egg" -> "egg"
      [] name = "Salt" -> "salt"
      [] OTHER -> name

\* normalize_ingredients matching names without regard to case
normalize_ingredients_nocase(product_names, recognized_ingredients) ==
    LET lowered == {Lower(recognized_ingredients[i].strIngredient) :
                       i \in DOMAIN recognized_ingredients}
        Recognized(name) == Lower(name) \in lowered
        NotRecognized(name) == Lower(name) \notin lowered
    IN PyTuple(SelectSeq(product_names, Recognized),
               SelectSeq(product_names, NotRecognized))

normalize_ingredients(product_names, recognized_ingredients) ==
    LET recognized_ingredient_names ==
            [i \in DOMAIN recognized_ingredients |->
                recognized_ingredients[i].strIngredient]
        Recognized(name) == name \in Range(recognized_ingredient_names)
        NotRecognized(name) == name \notin Range(recognized_ingredient_names)
    IN PyTuple(SelectSeq(product_names, Recognized),
               SelectSeq(product_names, NotRecognized))

(***************************************************************************)
(* Single calls: the function and its arguments are drawn at the start and *)
(* the call is then made once.                                             *)
(***************************************************************************)
ProductNames == {"Egg", "egg", "Salt"}
Prompts == {"", "Soup?", "Could you suggest me a recipe with chicken, potatoes and vegetables?"}
Backends ==
    {BackendText(s) : s \in {"", "Try a stew.", "An error occurred: no"}}
        \cup {BackendThrows(e, d) : e \in {"ConnectionError", "ResponseError"},
                                    d \in {"", "model not found"}}
        \cup {BackendNoKey}

IngredientLists == {<<>>, <<Ingredient("Egg")>>, <<Ingredient("Egg"), Ingredient("Salt")>>,
                    <<Ingredient("Salt"), Ingredient("Egg"), Ingredient("Salt")>>}
StubLists == SeqUpTo({Stub(id) : id \in MealIds}, 2)
Failures == BadStatus \cup BadJson \cup NoKey
IngredientResponses ==
    Failures \cup {MealsOf(None)} \cup {MealsOf(PyList(s)) : s \in IngredientLists}
CategoryResponses ==
    Failures \cup {CategoriesOf(None), MealsOf(None)}
        \cup {CategoriesOf(PyList(s)) : s \in {<<>>, <<Category("Beef")>>,
                                               <<Category("Beef"), Category("Dessert")>>}}
AreaResponses ==
    Failures \cup {MealsOf(None), CategoriesOf(None)}
        \cup {MealsOf(PyList(s)) : s \in {<<>>, <<Area("Italian")>>,
                                          <<Area("Italian"), Area("Thai")>>}}
SearchResponses ==
    Failures \cup {MealsOf(None)} \cup {MealsOf(PyList(s)) : s \in StubLists}
DetailResponses ==
    Failures \cup {MealsOf(None), MealsOf(PyList(<<>>))}
        \cup {MealsOf(PyList(<<m>>)) : m \in Meals}

NoBackend == BackendText("")
Call(fn, names, recognized, responses, backend) ==
    [fn |-> fn, names |-> names, recognized |-> recognized,
     responses |-> responses, backend |-> backend]
NoCall == Call("none", <<>>, <<>>, <<>>, NoBackend)
Pending == [exc |-> "pending", val |-> None, msgs |-> <<>>]

Calls ==
    {Call("generate_response_gemma", <<p>>, <<>>, <<>>, b) : p \in Prompts, b \in Backends}
    \cup {Call("generate_response_llama", <<p>>, <<>>, <<>>, b) :
             p \in Prompts, b \in Backends \ {BackendNoKey}}
    \cup {Call("fetch_ingredient_list", <<>>, <<>>, <<r>>, NoBackend) : r \in IngredientResponses}
    \cup {Call("fetch_category_list", <<>>, <<>>, <<r>>, NoBackend) : r \in CategoryResponses}
    \cup {Call("fetch_area_list", <<>>, <<>>, <<r>>, NoBackend) : r \in AreaResponses}
    \cup UNION {{Call("search_recipes_by_ingredients", n, <<>>, rs, NoBackend) :
                    rs \in [DOMAIN n -> SearchResponses]} : n \in SeqUpTo({"Egg", "Salt"}, 2)}
    \cup {Call("search_recipes_by_category_and_area", <<c, a>>, <<>>, <<r>>, NoBackend) :
             c \in {"All", "Beef"}, a \in {"All", "Italian"}, r \in SearchResponses}
    \cup {Call("get_recipe_details", <<id>>, <<>>, <<r>>, NoBackend) :
             id \in MealIds, r \in DetailResponses}
    \cup {Call("normalize_ingredients", p, r, <<>>, NoBackend) :
             p \in SeqUpTo(ProductNames, MaxList), r \in IngredientLists}

\* The state of a session nobody has interacted with yet.
default_text == "Could you suggest me a recipe with chicken, potatoes and vegetables?"
NoEvent == [flow |-> "none"]
NoOut == [flow |-> "none"]
SessionInit ==
    /\ best_recipe = Absent
    /\ history = <<>>
    /\ user_input = ""
    /\ input = default_text
    /\ pc = "idle"
    /\ ev = NoEvent

InitCalls == SessionInit /\ out = NoOut /\ call \in Calls /\ ret = Pending

Apply(fn, result) ==
    /\ call.fn = fn
    /\ ret = Pending
    /\ ret' = result
    /\ UNCHANGED <<sessionVars, pc, ev, out, call>>

Call_generate_response_gemma ==
    Apply("generate_response_gemma", generate_response_gemma(call.names[1], call.backend))
Call_generate_response_llama ==
    Apply("generate_response_llama", generate_response_llama(call.names[1], call.backend))
Call_fetch_ingredient_list ==
    Apply("fetch_ingredient_list", fetch_ingredient_list(call.responses[1]))
Call_fetch_category_list ==
    Apply("fetch_category_list", fetch_category_list(call.responses[1]))
Call_fetch_area_list ==
    Apply("fetch_area_list", fetch_area_list(call.responses[1]))
Call_search_recipes_by_ingredients ==
    Apply("search_recipes_by_ingredients",
          search_recipes_by_ingredients(call.names, call.responses))
Call_search_recipes_by_category_and_area ==
    Apply("search_recipes_by_category_and_area",
          search_recipes_by_category_and_area(call.names[1], call.names[2], call.responses[1]))
Call_get_recipe_details ==
    Apply("get_recipe_details", get_recipe_details(call.names[1], call.responses[1]))
Call_normalize_ingredients ==
    Apply("normalize_ingredients",
          Return(normalize_ingredients(call.names, call.recognized), <<>>))

NextCalls ==
    \/ Call_generate_response_gemma
    \/ Call_generate_response_llama
    \/ Call_fetch_ingredient_list
    \/ Call_fetch_category_list
    \/ Call_fetch_area_list
    \/ Call_search_recipes_by_ingredients
    \/ Call_search_recipes_by_category_and_area
    \/ Call_get_recipe_details
    \/ Call_normalize_ingredients

SpecCalls == InitCalls /\ [][NextCalls]_vars

(***************************************************************************)
(* A run of the script.  main() (lines 131-147) runs the four tabs one     *)
(* after the other in every run; pc is the tab the run is about to enter.  *)
(* A run starts when an interaction arrives (idle), and it ends after      *)
(* recipe_page, with the exception that leaves a tab, or when the script   *)
(* is stopped during the wait for the chat model.                          *)
(***************************************************************************)
ModelChoices == {"Chef De-Code", "Chef App-etizer"}
Texts == {"", "Soup?", default_text}
ChatBackends == {BackendText("Try a stew."), BackendText(""), BackendNoKey,
                 BackendThrows("ConnectionError", "model not found")}
Buttons == {"none", "chat", "upload", "filter"}
Columns == {<<>>, <<"egg">>, <<"egg", "Egg">>, <<"Salt", "egg">>,
            <<"Salt", "Egg", "Salt">>}
NoFile == [file |-> FALSE, column |-> <<>>]
Files == {NoFile} \cup {[file |-> TRUE, column |-> c] : c \in Columns}

\* The widgets' values in one run: the chef chosen, the text of the input
\* box, the button pressed (a button is pressed in the run its click starts,
\* so at most one is), the uploaded file, and what the model call of this
\* run will answer.
RunEvent(model_choice, text, button, backend, uploaded) ==
    [flow |-> "run", model_choice |-> model_choice, text |-> text, button |-> button,
     backend |-> backend, file |-> uploaded.file, column |-> uploaded.column]

\* The files a run of the recipe tabs is made with: every column when the
\* upload tab is the one interacted with, one of them otherwise.
FilesWith(button) ==
    IF button = "filter"
    THEN {NoFile, [file |-> TRUE, column |-> <<"Salt", "Egg", "Salt">>]}
    ELSE Files

\* An interaction with the recipe tabs (or the chat button, the text left
\* as it is) starts a run.
Interaction ==
    /\ pc = "idle"
    /\ \E button \in Buttons : \E uploaded \in FilesWith(button) :
          ev' = RunEvent("Chef De-Code", input, button, BackendText("Try a stew."),
                         uploaded)
    /\ pc' = "chatbot_tab"
    /\ UNCHANGED <<sessionVars, out, call, ret>>

\* An interaction with the chat tab, no file uploaded, starts a run.
ChatInteraction ==
    /\ pc = "idle"
    /\ \E choice \in ModelChoices, text \in Texts, button \in {"none", "chat"},
          b \in ChatBackends :
          ev' = RunEvent(choice, text, button, b, NoFile)
    /\ pc' = "chatbot_tab"
    /\ UNCHANGED <<sessionVars, out, call, ret>>

(***************************************************************************)
(* Chat tab (lines 150-202).                                               *)
(***************************************************************************)
\* a dispatch that compares the choice with the first offered label
dispatch_by_label(model_choice) ==
    IF model_choice = "Chef De-Code" THEN "gemma" ELSE "llama"

\* lines 186-189: which backend a submission is sent to
dispatch(model_choice) == IF model_choice = "gemma:2b" THEN "gemma" ELSE "llama"

\* the user's line appended without clearing the transcript
user_line_appended(old_history, text) == Append(old_history, "Aspiring Chef: " \o text)

\* lines 178-181: the transcript once the user's line is recorded
user_line(old_history, text) == <<"Aspiring Chef: " \o text>>

\* line 192: the bot's line is appended
bot_line(h, bot_response) == Append(h, "Culinary Luminary: " \o bot_response)

\* What the chat tab observed: the transcript before the run, whether the
\* run submitted a prompt, the backend called and its reply once it replied.
ChatOut(pre, submitted, called, replied, response, exc) ==
    [flow |-> "chat", pre_history |-> pre, submitted |-> submitted,
     backend_called |-> called, replied |-> replied, response |-> response,
     exc |-> exc]

\* Lines 150-181: the widgets, and for a submission the transcript reset to
\* the user's line; the run then waits for the model inside st.spinner.
chatbot_tab ==
    /\ pc = "chatbot_tab"
    /\ LET \* on_change of the text widget (line 172)
           after_change == IF ev.text # input THEN ev.text ELSE user_input
           submitted == ev.button = "chat" /\ ev.text # ""
       IN /\ input' = ev.text
          /\ user_input' = after_change
          /\ history' = IF submitted THEN user_line(history, ev.text) ELSE history
          /\ out' = ChatOut(history, submitted, "none", FALSE, "", "none")
          /\ pc' = IF submitted THEN "spinner" ELSE "upload_products_tab"
    /\ UNCHANGED <<best_recipe, ev, call, ret>>

\* Lines 184-195: the model call returns, the bot's line is appended and
\* user_input cleared.
chatbot_tab_reply ==
    /\ pc = "spinner"
    /\ LET called == dispatch(ev.model_choice)
           bot == IF called = "gemma"
                  THEN generate_response_gemma(ev.text, ev.backend)
                  ELSE generate_response_llama(ev.text, ev.backend)
       IN IF bot.exc # "none"
          THEN /\ out' = ChatOut(out.pre_history, TRUE, called, FALSE, "", bot.exc)
               /\ pc' = "done"
               /\ UNCHANGED <<history, user_input>>
          ELSE /\ history' = bot_line(history, bot.val.s)
               /\ user_input' = ""
               /\ out' = ChatOut(out.pre_history, TRUE, called, TRUE, bot.val.s, "none")
               /\ pc' = "upload_products_tab"
    /\ UNCHANGED <<best_recipe, input, ev, call, ret>>

\* The user interacts again while the run waits for the model: the script
\* is a Streamlit script, which the framework stops at the st.* call that
\* follows (the exit of st.spinner, line 184) in order to run it again for
\* the new interaction.  The stop is not an Exception, so nothing in the
\* script catches it, and the session state keeps what lines 178-181 wrote.
Stopped ==
    /\ pc = "spinner"
    /\ pc' = "idle"
    /\ ev' = NoEvent
    /\ out' = NoOut
    /\ UNCHANGED <<sessionVars, call, ret>>

(***************************************************************************)
(* Upload tab (lines 205-252).                                             *)
(***************************************************************************)
\* df['Product Name'].unique().tolist(): first occurrences, in order
RECURSIVE unique(_)
unique(column) ==
    IF column = <<>> THEN <<>>
    ELSE LET front == unique(SubSeq(column, 1, Len(column) - 1))
             last == column[Len(column)]
         IN IF last \in Range(front) THEN front ELSE Append(front, last)

\* line 242: the slots strIngredient1..strIngredient20 whose value is one of
\* the normalized names (a missing slot reads as None, which is no name)
match_count(recipe_details, normalized_names) ==
    LET names == Range(normalized_names)
        slots == recipe_details.ings
    IN Cardinality({i \in 1..NumSlots : i <= Len(slots) /\ slots[i] \in names})

\* a comparison that lets a later candidate with an equal count win
better_or_equal(count, best_match_count) == count >= best_match_count

\* line 243
better(count, best_match_count) == count > best_match_count

\* lines 239-245: the loop over the candidates from candidate i on;
\* responses[i] answers the lookup of the i-th candidate
RECURSIVE best_loop(_, _, _, _, _, _)
best_loop(recipes, responses, normalized_names, i, best, best_match_count) ==
    IF i > Len(recipes) THEN Return(best, <<>>)
    ELSE LET recipe_details == get_recipe_details(recipes[i].idMeal, responses[i])
             count == match_count(recipe_details.val, normalized_names)
         IN IF recipe_details.exc # "none" THEN recipe_details
            ELSE IF Truthy(recipe_details.val) /\ better(count, best_match_count)
                 THEN best_loop(recipes, responses, normalized_names, i + 1,
                                recipe_details.val, count)
                 ELSE best_loop(recipes, responses, normalized_names, i + 1,
                                best, best_match_count)

\* an assignment of the loop's result whether or not a recipe was retained
store_always(slot, best) == [slot |-> best, wrote |-> TRUE]

\* lines 247-250: the slot after the loop, given the slot before it
store_best(slot, best) ==
    IF Truthy(best) THEN [slot |-> best, wrote |-> TRUE]
    ELSE [slot |-> slot, wrote |-> FALSE]

\* What a run observed: the slot before it, whether some fetch returned
\* None, whether a fetch itself raised, the exception that ended the run,
\* whether the slot was assigned, and the selector's inputs.
Observed(flow, pre, failed, fetch_raised, exc, wrote, normalized, lookups) ==
    [flow |-> flow, pre |-> pre, failed |-> failed, fetch_raised |-> fetch_raised,
     exc |-> exc, wrote |-> wrote, normalized |-> normalized, lookups |-> lookups]

\* The lookups the loop makes: one per candidate, up to the first that raises.
LookupsMade(recipes, responses) ==
    [i \in 1..Len(responses) |-> get_recipe_details(recipes[i].idMeal, responses[i])]

\* The whole tab: the slot it leaves and what it observed.
upload_products_tab_run(slot, e) ==
    LET Quiet(failed) ==
            [slot |-> slot,
             out |-> Observed("upload", slot, failed, FALSE, "none", FALSE, <<>>, <<>>)]
        Crash(failed, exc, normalized, lookups) ==
            [slot |-> slot,
             out |-> Observed("upload", slot, failed, TRUE, exc, FALSE, normalized, lookups)]
    IN IF ~e.file THEN Quiet(FALSE)
       ELSE
       LET product_names == unique(e.column)
           recognized_ingredients == fetch_ingredient_list(e.ing_response)
       IN IF recognized_ingredients.exc # "none"
          THEN Crash(FALSE, recognized_ingredients.exc, <<>>, <<>>)
          ELSE IF ~Truthy(recognized_ingredients.val)
          THEN Quiet(recognized_ingredients.val = None)
          ELSE
          LET normalized_names ==
                  normalize_ingredients(product_names,
                                        recognized_ingredients.val.items).fst
          IN IF ~e.pressed THEN Quiet(FALSE)
             ELSE
             LET recipes == search_recipes_by_ingredients(normalized_names,
                                                          e.search_responses)
             IN IF recipes.exc # "none"
                THEN Crash(FALSE, recipes.exc, normalized_names, <<>>)
                ELSE IF ~Truthy(recipes.val)
                THEN [slot |-> slot,
                      out |-> Observed("upload", slot, recipes.val = None, FALSE,
                                       "none", FALSE, normalized_names, <<>>)]
                ELSE
                LET lookups == LookupsMade(recipes.val.items, e.detail_responses)
                    failed == \E i \in DOMAIN lookups :
                                 lookups[i].exc = "none" /\ lookups[i].val = None
                    best == best_loop(recipes.val.items, e.detail_responses,
                                      normalized_names, 1, None, 0)
                IN IF best.exc # "none"
                   THEN Crash(failed, best.exc, normalized_names, lookups)
                   ELSE LET stored == store_best(slot, best.val)
                        IN [slot |-> stored.slot,
                            out |-> Observed("upload", slot, failed, FALSE, "none",
                                             stored.wrote, normalized_names, lookups)]

(***************************************************************************)
(* Filter tab (lines 255-284).                                             *)
(***************************************************************************)
\* ["All"] + categories (lines 265-266): TypeError when the list is None
Options(fetched) ==
    IF fetched.val.t = "list" THEN Return(PyList(<<"All">> \o fetched.val.items), <<>>)
    ELSE Raise("TypeError")

\* line 282: the slot is assigned whatever the lookup returns
store_first(slot, recipe_details) == recipe_details.val

select_filters_tab_run(slot, e) ==
    LET End(failed, fetch_raised, exc) ==
            [slot |-> slot,
             out |-> Observed("filter", slot, failed, fetch_raised, exc, FALSE, <<>>, <<>>)]
        categories == fetch_category_list(e.cat_response)
        areas == fetch_area_list(e.area_response)
    IN IF categories.exc # "none" THEN End(FALSE, TRUE, categories.exc)
       ELSE IF areas.exc # "none" THEN End(categories.val = None, TRUE, areas.exc)
       ELSE
       LET lists_failed == categories.val = None \/ areas.val = None
       IN IF Options(categories).exc # "none"
          THEN End(lists_failed, FALSE, Options(categories).exc)
          ELSE IF Options(areas).exc # "none"
          THEN End(lists_failed, FALSE, Options(areas).exc)
          ELSE IF ~e.pressed THEN End(lists_failed, FALSE, "none")
          ELSE IF ~(e.selected_category # "All" \/ e.selected_area # "All")
          THEN End(lists_failed, FALSE, "none")
          ELSE
          LET recipes == search_recipes_by_category_and_area(
                             e.selected_category, e.selected_area, e.search_responses[1])
          IN IF recipes.exc # "none" THEN End(lists_failed, TRUE, recipes.exc)
             ELSE IF ~Truthy(recipes.val)
             THEN End(lists_failed \/ recipes.val = None, FALSE, "none")
             ELSE
             LET best_recipe_stub == recipes.val.items[1]
                 recipe_details == get_recipe_details(best_recipe_stub.idMeal,
                                                      e.detail_responses[1])
             IN IF recipe_details.exc # "none"
                THEN [slot |-> slot,
                      out |-> Observed("filter", slot, lists_failed, TRUE,
                                       recipe_details.exc, FALSE, <<>>,
                                       <<recipe_details>>)]
                ELSE [slot |-> store_first(slot, recipe_details),
                      out |-> Observed("filter", slot,
                                       lists_failed \/ recipe_details.val = None,
                                       FALSE, "none", TRUE, <<>>, <<recipe_details>>)]

(***************************************************************************)
(* Recipe page (lines 287-311): the selected recipe is displayed, nothing  *)
(* is written.                                                             *)
(***************************************************************************)
\* session_state.get('best_recipe'): an absent key reads as None
Shown(slot) == IF slot = Absent THEN None ELSE slot

recipe_page_run(slot) ==
    LET selected == Shown(slot)
    IN IF ~Truthy(selected) THEN Return(None, <<>>)
       ELSE IF {"strMeal", "strMealThumb", "strInstructions"} \subseteq DOMAIN selected
            THEN Return(PyStr(selected.strMeal), <<>>)
            ELSE Raise("KeyError")

(***************************************************************************)
(* The answers of the remote catalogue during one run.                     *)
(***************************************************************************)
Status500 == HttpResponse(500, TextBody)
FlowIngredientResponses ==
    {Status500, MealsOf(None)} \cup NoKey
        \cup {MealsOf(PyList(<<Ingredient("Egg"), Ingredient("Salt")>>))}
FlowSearchResponses ==
    {Status500, MealsOf(None)} \cup NoKey
        \cup {MealsOf(PyList(s)) : s \in SeqUpTo({Stub(id) : id \in MealIds}, MaxCand) \ {<<>>}}
FlowDetailResponses(id) ==
    {Status500, MealsOf(PyList(<<>>)), MealsOf(PyList(<<Lookup(id)>>))}
FlowCategoryResponses ==
    {Status500, CategoriesOf(PyList(<<Category("Beef")>>))} \cup NoKey
FlowAreaResponses ==
    {Status500, MealsOf(PyList(<<Area("Italian")>>))} \cup NoKey

\* The answers to the requests of search_recipes_by_ingredients for the
\* ingredients i..n: one per ingredient, none after the answer that ends
\* the loop, and no more than `room` candidates in all.
SearchEnds(r) ==
    LET one == search_recipes_by_ingredients(<<"x">>, <<r>>)
    IN one.exc # "none" \/ one.val = None
Candidates(r) ==
    LET one == search_recipes_by_ingredients(<<"x">>, <<r>>)
    IN IF one.exc = "none" /\ Truthy(one.val) THEN Len(one.val.items) ELSE 0
RECURSIVE SearchAnswers(_, _, _)
SearchAnswers(i, n, room) ==
    IF i > n THEN {<<>>}
    ELSE UNION {IF SearchEnds(r) THEN {<<r>>}
                ELSE {<<r>> \o t : t \in SearchAnswers(i + 1, n, room - Candidates(r))} :
                r \in {x \in FlowSearchResponses : Candidates(x) <= room}}

\* The answers to the lookups of the candidates found[i..]: one per
\* candidate, none after a lookup that raises.
RECURSIVE LookupAnswers(_, _)
LookupAnswers(i, found) ==
    IF i > Len(found) THEN {<<>>}
    ELSE LET rest == LookupAnswers(i + 1, found)
         IN UNION {IF get_recipe_details(found[i].idMeal, r).exc # "none"
                   THEN {<<r>>} ELSE {<<r>> \o t : t \in rest} :
                   r \in FlowDetailResponses(found[i].idMeal)}

UploadEvent(file, column, ing_response, pressed, search_responses, detail_responses) ==
    [flow |-> "upload", file |-> file, column |-> column, ing_response |-> ing_response,
     pressed |-> pressed, search_responses |-> search_responses,
     detail_responses |-> detail_responses]

\* The tab with the file and the button of this run; the requests it makes,
\* and so the answers it gets, depend on the answers to the earlier ones.
upload_products_tab ==
    /\ pc = "upload_products_tab"
    /\ \E ing_response \in (IF ev.file THEN FlowIngredientResponses ELSE {Status500}) :
          LET pressed == ev.button = "upload"
              fetched == fetch_ingredient_list(ing_response)
              searches == /\ ev.file /\ pressed
                          /\ fetched.exc = "none" /\ Truthy(fetched.val)
              names == IF searches
                       THEN normalize_ingredients(unique(ev.column),
                                                  fetched.val.items).fst
                       ELSE <<>>
          IN \E srs \in (IF searches THEN SearchAnswers(1, Len(names), MaxCand)
                          ELSE {<<>>}) :
                LET recipes == search_recipes_by_ingredients(names, srs)
                    found == IF searches /\ recipes.exc = "none" /\ Truthy(recipes.val)
                             THEN recipes.val.items ELSE <<>>
                IN \E drs \in LookupAnswers(1, found) :
                      LET e == UploadEvent(ev.file, ev.column, ing_response, pressed,
                                           srs, drs)
                          run == upload_products_tab_run(best_recipe, e)
                      IN /\ best_recipe' = run.slot
                         /\ out' = run.out
                         /\ pc' = IF run.out.exc = "none"
                                  THEN "select_filters_tab" ELSE "done"
    /\ UNCHANGED <<history, user_input, input, ev, call, ret>>

FilterEvent(cat_response, area_response, c, a, pressed, srs, drs) ==
    [flow |-> "filter", cat_response |-> cat_response,
     area_response |-> area_response, selected_category |-> c,
     selected_area |-> a, pressed |-> pressed,
     search_responses |-> srs, detail_responses |-> drs]

\* The tab in a run: the two lists are fetched in every run, the
\* selections are among the options shown, and the search and the lookup
\* are answered when the button makes the tab request them.
select_filters_tab ==
    /\ pc = "select_filters_tab"
    /\ \E cat_response \in FlowCategoryResponses, area_response \in FlowAreaResponses :
          LET pressed == ev.button = "filter"
              categories == fetch_category_list(cat_response)
              areas == fetch_area_list(area_response)
              shown == /\ categories.exc = "none" /\ areas.exc = "none"
                       /\ Options(categories).exc = "none"
                       /\ Options(areas).exc = "none"
          IN \E c \in (IF shown THEN Range(Options(categories).val.items) ELSE {"All"}),
                a \in (IF shown THEN Range(Options(areas).val.items) ELSE {"All"}) :
                LET searches == shown /\ pressed /\ (c # "All" \/ a # "All")
                IN \E srs \in (IF searches THEN {<<sr>> : sr \in FlowSearchResponses}
                                ELSE {<<>>}) :
                      LET recipes == IF searches
                                     THEN search_recipes_by_category_and_area(c, a, srs[1])
                                     ELSE Return(None, <<>>)
                          looks == recipes.exc = "none" /\ Truthy(recipes.val)
                      IN \E drs \in (IF looks
                                      THEN {<<dr>> : dr \in FlowDetailResponses(
                                                        recipes.val.items[1].idMeal)}
                                      ELSE {<<>>}) :
                            LET e == FilterEvent(cat_response, area_response, c, a,
                                                 pressed, srs, drs)
                                run == select_filters_tab_run(best_recipe, e)
                            IN /\ best_recipe' = run.slot
                               /\ out' = run.out
                               /\ pc' = IF run.out.exc = "none"
                                        THEN "recipe_page" ELSE "done"
    /\ UNCHANGED <<history, user_input, input, ev, call, ret>>

recipe_page ==
    /\ pc = "recipe_page"
    /\ LET page == recipe_page_run(best_recipe)
       IN out' = [flow |-> "recipe", exc |-> page.exc, title |-> page.val]
    /\ pc' = "done"
    /\ UNCHANGED <<sessionVars, ev, call, ret>>

\* The run is over; the next interaction starts another.
RunEnds ==
    /\ pc = "done"
    /\ pc' = "idle"
    /\ ev' = NoEvent
    /\ out' = NoOut
    /\ UNCHANGED <<sessionVars, call, ret>>

Init == SessionInit /\ out = NoOut /\ call = NoCall /\ ret = Pending

\* Runs driven by the recipe tabs.
Next ==
    \/ Interaction
    \/ chatbot_tab
    \/ chatbot_tab_reply
    \/ Stopped
    \/ upload_products_tab
    \/ select_filters_tab
    \/ recipe_page
    \/ RunEnds
Spec == Init /\ [][Next]_vars

\* Runs driven by the chat tab.
NextChat ==
    \/ ChatInteraction
    \/ chatbot_tab
    \/ chatbot_tab_reply
    \/ Stopped
    \/ upload_products_tab
    \/ select_filters_tab
    \/ recipe_page
    \/ RunEnds
SpecChat == Init /\ [][NextChat]_vars

(***************************************************************************)
(* Properties.                                                             *)
(***************************************************************************)
StartsWith(str, prefix) ==
    Len(str) >= Len(prefix) /\ SubSeq(str, 1, Len(prefix)) = prefix

\* A Failure: None returned, with a message displayed, nothing raised.
IsFailure(outcome) ==
    outcome.exc = "none" /\ outcome.val = None /\ Len(outcome.msgs) > 0

\* The number of slots 1..NumSlots of a recipe whose value is in names.
RECURSIVE OverlapFrom(_, _, _)
OverlapFrom(ings, names, i) ==
    IF i > NumSlots THEN 0
    ELSE (IF i <= Len(ings) /\ (\E k \in DOMAIN names : names[k] = ings[i]) THEN 1 ELSE 0)
            + OverlapFrom(ings, names, i + 1)

\* The overlap counts of the candidates whose details the selector obtained
\* (-1 for a candidate without details).
Counts ==
    [i \in DOMAIN out.lookups |->
        IF out.lookups[i].exc = "none" /\ Truthy(out.lookups[i].val)
        THEN OverlapFrom(out.lookups[i].val.ings, out.normalized, 1)
        ELSE -1]
SelectorRan == out.flow = "upload"
SearchFlowRan == out.flow \in {"upload", "filter"}

\* C1: in both search flows, when a fetch returned None the selected recipe
\* after the interaction is the selected recipe before it.
C1_FailureLeavesSelection ==
    (SearchFlowRan /\ out.failed) => Shown(best_recipe) = Shown(out.pre)

\* C2: the ingredient-based selector never selects a candidate with overlap
\* count 0, and when no candidate has a positive count (or there is no
\* candidate) nothing is selected and the slot is not written.
C2_NoZeroOverlapSelection ==
    SelectorRan =>
        LET counts == Counts
        IN /\ out.wrote =>
                 \E i \in DOMAIN counts : /\ best_recipe = out.lookups[i].val
                                          /\ counts[i] > 0
           /\ (\A i \in DOMAIN counts : counts[i] <= 0) =>
                 (~out.wrote /\ best_recipe = out.pre)

C2_Witness ==
    /\ SelectorRan
    /\ out.wrote
    /\ \E i, j \in DOMAIN Counts : /\ i < j
                                   /\ Counts[i] = 0
                                   /\ Counts[j] > 0
                                   /\ best_recipe = out.lookups[j].val

\* C3: when two or more candidates share the maximal positive overlap count,
\* the selector returns the first of them in the candidate list.
C3_FirstOfTiesWins ==
    SelectorRan =>
        LET counts == Counts
            tied == {i \in DOMAIN counts :
                        counts[i] > 0 /\ \A j \in DOMAIN counts : counts[j] <= counts[i]}
        IN Cardinality(tied) >= 2 =>
              /\ out.exc = "none" => out.wrote
              /\ out.wrote =>
                    \E i \in tied : /\ \A j \in tied : i <= j
                                    /\ best_recipe = out.lookups[i].val

C3_Witness ==
    /\ SelectorRan
    /\ out.wrote
    /\ LET counts == Counts
           tied == {i \in DOMAIN counts :
                       counts[i] > 0 /\ \A j \in DOMAIN counts : counts[j] <= counts[i]}
       IN \E i, j \in tied : /\ i < j
                             /\ out.lookups[i].val # out.lookups[j].val
                             /\ best_recipe = out.lookups[i].val
                             /\ \A k \in tied : i <= k

\* C4: normalize_ingredients splits the product names into the recognized
\* and the unrecognized ones, every position in exactly one output, order
\* and multiplicity kept, names compared exactly.
C4_NormalizePartitions ==
    (call.fn = "normalize_ingredients" /\ ret.exc # "pending") =>
        LET P == call.names
            names == {call.recognized[i].strIngredient : i \in DOMAIN call.recognized}
            matched == ret.val.fst
            unmatched == ret.val.snd
            Before(i) == Cardinality({j \in 1..i : P[j] \in names})
        IN /\ ret.exc = "none"
           /\ Len(matched) + Len(unmatched) = Len(P)
           /\ \A i \in DOMAIN P :
                 IF P[i] \in names
                 THEN Before(i) <= Len(matched) /\ matched[Before(i)] = P[i]
                 ELSE /\ i - Before(i) <= Len(unmatched)
                      /\ unmatched[i - Before(i)] = P[i]

C4_Witness ==
    /\ call.fn = "normalize_ingredients"
    /\ ret.exc = "none"
    /\ call.names = <<"egg", "Egg", "Egg">>
    /\ ret.val.fst = <<"Egg", "Egg">>
    /\ ret.val.snd = <<"egg">>

\* C5: get_recipe_details on a 200 response whose meals array is empty
\* returns Failure and does not raise.
C5_EmptyMealsIsFailure ==
    (/\ call.fn = "get_recipe_details"
     /\ ret.exc # "pending"
     /\ call.responses[1] = MealsOf(PyList(<<>>))) => IsFailure(ret)

ReadOperations ==
    {"fetch_ingredient_list", "fetch_category_list", "fetch_area_list",
     "search_recipes_by_ingredients", "search_recipes_by_category_and_area",
     "get_recipe_details"}
ExpectedKey(fn) == IF fn = "fetch_category_list" THEN "categories" ELSE "meals"
FailureCase(fn, response) ==
    \/ response.status_code # 200
    \/ ~response.body.json
    \/ ExpectedKey(fn) \notin DOMAIN response.body.obj

\* C6: every read operation of the client returns Failure and does not
\* raise on a non-success status, on a body that is not JSON, and on a JSON
\* object without the expected key.
C6_FailureCasesReturnFailure ==
    (/\ call.fn \in ReadOperations
     /\ ret.exc # "pending"
     /\ Len(call.responses) > 0
     /\ FailureCase(call.fn, call.responses[1])) => IsFailure(ret)

\* C7: a fetch that returns None is never fatal to the interaction: the
\* handler completes without an unhandled exception.
C7_FailureIsNotFatal ==
    (SearchFlowRan /\ out.failed /\ ~out.fetch_raised) => out.exc = "none"

\* C8: the two generate functions never raise; when the model call throws
\* they return "An error occurred: " followed by the details, otherwise the
\* generated text unchanged.
C8_GenerateNeverRaises ==
    (/\ call.fn \in {"generate_response_gemma", "generate_response_llama"}
     /\ ret.exc # "pending") =>
        /\ ret.exc = "none"
        /\ ret.val.t = "str"
        /\ call.backend.exc # "none" =>
              /\ StartsWith(ret.val.s, "An error occurred: ")
              /\ ret.val.s = "An error occurred: " \o call.backend.details
        /\ (call.backend.exc = "none" /\ call.backend.haskey) =>
              ret.val.s = call.backend.text

C8_Witness ==
    /\ call.fn = "generate_response_gemma"
    /\ call.backend.exc = "ResponseError"
    /\ ret.exc = "none"
    /\ ret.val.s = "An error occurred: model not found"

Turn(prompt, response) ==
    <<"Aspiring Chef: " \o prompt, "Culinary Luminary: " \o response>>
ChatTabRan == out.flow = "chat" /\ pc # "spinner"

C10_GemmaNeverInvoked ==
    out.flow = "chat" =>
        /\ out.backend_called # "gemma"
        /\ (ChatTabRan /\ ev.button = "chat" /\ ev.text # "") =>
              out.backend_called = "llama"

C10_Witness ==
    /\ ChatTabRan
    /\ ev.model_choice = "Chef De-Code"
    /\ ev.button = "chat"
    /\ ev.text # ""
    /\ out.replied
    /\ out.backend_called = "llama"

====
